---- MODULE Spec2Model ----
(***************************************************************************)
(* Model of generate_data.py: the XorShift64Star generator and the         *)
(* generate_data workload builder.                                         *)
(*                                                                         *)
(* A Python int n >= 0 is modelled as the set of the positions of its one  *)
(* bits (5 = {0, 2}), so that it keeps Python's unbounded width: a left    *)
(* shift loses nothing and "& 0xFFFFFFFFFFFFFFFF" is what truncates.       *)
(* Small ints (indices, counts, miss keys, code points) are naturals.      *)
(***************************************************************************)
EXTENDS Integers, Sequences, FiniteSets

VARIABLES
    rng,        \* the generator object: [state, calls]; calls counts next_u64 invocations
    seed,       \* driver: the seed rng was constructed with
    twin,       \* driver: a second generator object, given the same calls as rng
    seed2,      \* driver: the seed twin was constructed with
    op,         \* driver: the last method called ("new" after construction)
    arg,        \* driver: its bound argument (next_usize)
    ret,        \* driver: the value it returned on rng
    ret2,       \* driver: the value it returned on twin
    prev,       \* driver: rng as it was before the last call
    array0,     \* driver: the list handed to shuffle
    array,      \* driver: that list after shuffle(rng), mutated in place
    array2,     \* driver: that list after shuffle(twin)
    cfg,        \* generate_data: the module-level configuration constants
    pc,         \* generate_data: the statement it is at
    i,          \* generate_data: the iteration of the current loop
    data,       \* generate_data: its local lists
    f64s,       \* generate_data: the next_f64 value drawn by each search iteration
    log,        \* generate_data: the phase that made each next_u64 call, in call order
    result      \* generate_data: the returned dict, <<>> until it returns

vars == <<rng, seed, twin, seed2, op, arg, ret, ret2, prev, array0, array, array2,
          cfg, pc, i, data, f64s, log, result>>

driverVars == <<seed, twin, seed2, op, arg, ret, ret2, prev, array0, array, array2>>
builderVars == <<cfg, pc, i, data, f64s, log, result>>

----------------------------------------------------------------------------
(* Bounds of the model *)

MaxCalls == 5        \* driver: next_u64 invocations per generator
MaxBound == 3        \* driver: largest bound handed to next_usize
MaxLen == 3          \* driver: longest list handed to shuffle
MaxN == 4            \* builder: largest N
MaxUpdates == 1      \* builder: largest UPDATE_COUNT
MaxHits == 2         \* builder: largest REMOVE_HITS
MaxMisses == 2       \* builder: largest REMOVE_MISSES
MaxSearches == 3     \* builder: largest SEARCH_COUNT

----------------------------------------------------------------------------
(* Python ints as sets of bit positions *)

XOR(a, b) == {j \in a \cup b : ~(j \in a /\ j \in b)}
AND(a, b) == {j \in a : j \in b}
Shr(a, k) == {j - k : j \in {b \in a : b >= k}}
Shl(a, k) == {j + k : j \in a}

Top(a) == CHOOSE t \in a : \A b \in a : b <= t

\* a < b on ints
Lt(a, b) == a # b /\ Top(XOR(a, b)) \in b

\* byte k of an int, as a natural
Bit(a, k) == IF k \in a THEN 1 ELSE 0
Byte(a, k) ==
    Bit(a, 8 * k) + 2 * Bit(a, 8 * k + 1) + 4 * Bit(a, 8 * k + 2)
    + 8 * Bit(a, 8 * k + 3) + 16 * Bit(a, 8 * k + 4) + 32 * Bit(a, 8 * k + 5)
    + 64 * Bit(a, 8 * k + 6) + 128 * Bit(a, 8 * k + 7)

\* the eight bytes of an int < 2^64, least significant first
Bytes(a) ==
    <<Byte(a, 0), Byte(a, 1), Byte(a, 2), Byte(a, 3),
      Byte(a, 4), Byte(a, 5), Byte(a, 6), Byte(a, 7)>>

\* Horner's rule over the bytes bs[k] .. bs[1], most significant first
RECURSIVE Horner(_, _, _, _)
Horner(bs, m, k, r) ==
    IF k < 1 THEN r ELSE Horner(bs, m, k - 1, (256 * r + bs[k]) % m)

\* a % m for an int a < 2^64 and a small natural m >= 1, as a natural
Mod(a, m) == Horner(Bytes(a), m, 8, 0)

Pow2 == <<1, 2, 4, 8, 16, 32, 64, 128, 256, 512, 1024, 2048, 4096, 8192, 16384, 32768>>

\* the int < 2^64 whose bytes are bs[1] (least significant) .. bs[8]
FromBytes(bs) ==
    {q \in 0..63 : (bs[(q \div 8) + 1] \div Pow2[(q % 8) + 1]) % 2 = 1}

\* column k of the schoolbook product of the byte tuples x and y
RECURSIVE Column(_, _, _, _)
Column(x, y, k, p) ==
    IF p > k THEN 0 ELSE x[p + 1] * y[k - p + 1] + Column(x, y, k, p + 1)

\* the bytes k .. 7 of the product of the byte tuples x and y, the carry c
\* coming in from column k - 1
RECURSIVE ProductFrom(_, _, _, _)
ProductFrom(x, y, k, c) ==
    IF k > 7 THEN <<>>
    ELSE <<(Column(x, y, k, 0) + c) % 256>>
         \o ProductFrom(x, y, k + 1, (Column(x, y, k, 0) + c) \div 256)

\* (a * b) & 0xFFFFFFFFFFFFFFFF for ints a, b < 2^64: the low eight bytes of
\* the product
MulMask64(a, b) == FromBytes(ProductFrom(Bytes(a), Bytes(b), 0, 0))

\* the int with the 16-bit limbs ls, most significant first
FromLimbs(ls) ==
    UNION {{16 * (Len(ls) - p) + b : b \in {c \in 0..15 : (ls[p] \div Pow2[c + 1]) % 2 = 1}}
           : p \in 1..Len(ls)}

----------------------------------------------------------------------------
(* class XorShift64Star *)

MASK64 == 0..63                                   \* 0xFFFFFFFFFFFFFFFF
MULT == FromLimbs(<<9541, 62609, 20332, 56605>>)  \* 0x2545F4914F6CDD1D
ORD_A == 97                                       \* ord('a')

\* mutants of New: the zero seed is stored as it is; the test is inverted
New_NoCoerce(s) == [state |-> s, calls |-> 0]
New_Inverted(s) == [state |-> IF s = {} THEN s ELSE {0}, calls |-> 0]

New(s) == [state |-> IF s # {} THEN s ELSE {0}, calls |-> 0]

\* lines 17-20 of next_u64: the three shift-xor statements, then the mask
Xor12(x) == XOR(x, Shr(x, 12))
Xor25(x) == XOR(x, Shl(x, 25))
Xor27(x) == XOR(x, Shr(x, 27))
Advance(x) == AND(Xor27(Xor25(Xor12(x))), MASK64)

\* lines 21-22 of next_u64: x is stored and x * MULT, masked, is returned
Drawn(g, x) ==
    [rng |-> [state |-> x, calls |-> g.calls + 1], ret |-> MulMask64(x, MULT)]

next_u64(g) == Drawn(g, Advance(g.state))

\* d is the result of the next_u64 call of a method: what the method returns
Reduced(d, bound) == [rng |-> d.rng, ret |-> Mod(d.ret, bound)]
Top53(d) == [rng |-> d.rng, ret |-> Shr(d.ret, 11)]
Letter(d) == [rng |-> d.rng, ret |-> ORD_A + Mod(d.ret, 26)]

\* mutant of next_usize: the draw is made whatever the bound
next_usize_AlwaysDraws(g, bound) ==
    IF bound <= 1 THEN [rng |-> next_u64(g).rng, ret |-> 0]
    ELSE Reduced(next_u64(g), bound)

next_usize(g, bound) ==
    IF bound <= 1 THEN [rng |-> g, ret |-> 0]
    ELSE Reduced(next_u64(g), bound)

\* the float returned is ret * 2^-53, exactly: ret < 2^53 converts to a float
\* without rounding and the product with a power of two is exact
next_f64(g) == Top53(next_u64(g))

\* a character is modelled by its code point
rand_char(g) == Letter(next_u64(g))

\* mutant of Swap: the second assignment of the swap is lost
Swap_Overwrite(a, p, q) == [a EXCEPT ![p + 1] = a[q + 1]]

\* a Python list is a sequence; index k of the list is position k + 1
Swap(a, p, q) == [a EXCEPT ![p + 1] = a[q + 1], ![q + 1] = a[p + 1]]

\* one iteration of the loop of shuffle, at index k, on s = [rng, array];
\* d is the result of next_usize(k + 1)
Swapped(s, k, d) == [rng |-> d.rng, array |-> Swap(s.array, k, d.ret)]
\* mutant of ShuffleStep: j is drawn below i, not below i + 1
ShuffleStep_BoundI(s, k) == Swapped(s, k, next_usize(s.rng, k))

ShuffleStep(s, k) == Swapped(s, k, next_usize(s.rng, k + 1))

\* the iterations at indices k down to 1
RECURSIVE ShuffleFrom(_, _)
ShuffleFrom(s, k) ==
    IF k < 1 THEN s ELSE ShuffleFrom(ShuffleStep(s, k), k - 1)

shuffle(g, a) == ShuffleFrom([rng |-> g, array |-> a], Len(a) - 1)

----------------------------------------------------------------------------
(* A driver of the class: two generators constructed from two seeds are    *)
(* given the same sequence of method calls.                                *)

SEED == FromLimbs(<<57005, 48879, 51966, 47806>>) \* 0xDEADBEEFCAFEBABE

Seeds == {{}, {0}, SEED}

Arrays ==
    {[p \in 1..L |-> p - 1] : L \in 0..MaxLen} \cup
    {[p \in 1..L |-> p % 2] : L \in 0..MaxLen}

NoCfg == [N |-> 0]

DriverInit ==
    /\ seed \in Seeds
    /\ seed2 \in Seeds
    /\ rng = New(seed)
    /\ twin = New(seed2)
    /\ prev = rng
    /\ op = "new"
    /\ arg = 0
    /\ ret = 0
    /\ ret2 = 0
    /\ array0 = <<>>
    /\ array = <<>>
    /\ array2 = <<>>
    /\ cfg = NoCfg
    /\ pc = "driver"
    /\ i = 0
    /\ data = <<>>
    /\ f64s = <<>>
    /\ log = <<>>
    /\ result = <<>>

Called(name, b, r, r2) ==
    /\ op' = name
    /\ arg' = b
    /\ prev' = rng
    /\ rng' = r.rng
    /\ ret' = r.ret
    /\ twin' = r2.rng
    /\ ret2' = r2.ret
    /\ UNCHANGED <<seed, seed2>>
    /\ UNCHANGED builderVars

CallNextU64 ==
    /\ pc = "driver"
    /\ rng.calls < MaxCalls
    /\ Called("next_u64", 0, next_u64(rng), next_u64(twin))
    /\ UNCHANGED <<array0, array, array2>>

CallNextUsize ==
    /\ pc = "driver"
    /\ rng.calls < MaxCalls
    /\ \E b \in (-1)..MaxBound :
         Called("next_usize", b, next_usize(rng, b), next_usize(twin, b))
    /\ UNCHANGED <<array0, array, array2>>

CallNextF64 ==
    /\ pc = "driver"
    /\ rng.calls < MaxCalls
    /\ Called("next_f64", 0, next_f64(rng), next_f64(twin))
    /\ UNCHANGED <<array0, array, array2>>

CallRandChar ==
    /\ pc = "driver"
    /\ rng.calls < MaxCalls
    /\ Called("rand_char", 0, rand_char(rng), rand_char(twin))
    /\ UNCHANGED <<array0, array, array2>>

\* shuffle returns None (0 here) and mutates the list
CallShuffle ==
    /\ pc = "driver"
    /\ \E a \in Arrays :
         /\ rng.calls + Len(a) <= MaxCalls + 1
         /\ LET s == shuffle(rng, a)
                s2 == shuffle(twin, a)
            IN /\ Called("shuffle", 0, [rng |-> s.rng, ret |-> 0],
                         [rng |-> s2.rng, ret |-> 0])
               /\ array0' = a
               /\ array' = s.array
               /\ array2' = s2.array

DriverNext ==
    \/ CallNextU64
    \/ CallNextUsize
    \/ CallNextF64
    \/ CallRandChar
    \/ CallShuffle

SpecGen == DriverInit /\ [][DriverNext]_vars

----------------------------------------------------------------------------
(* generate_data *)

\* SEARCH_HIT_RATE r is modelled by the int r * 2^53, so that
\* next_f64() < r is Lt on the ints
HALF == {52}          \* 0.50
QUARTER == {51}       \* 0.25
Rates == {HALF, QUARTER}

Configs(seeds, ns, us, cs, ss, rates) ==
    [N : ns, SEED : seeds, UPDATE_COUNT : us, REMOVE_COUNT : cs,
     REMOVE_HITS : 0..MaxHits, REMOVE_MISSES : 0..MaxMisses,
     SEARCH_COUNT : ss, SEARCH_HIT_RATE : rates]

\* what section 7 of the specification requires of a configuration
ValidConfig(c) ==
    /\ c.N >= 1
    /\ c.UPDATE_COUNT >= 1
    /\ c.REMOVE_COUNT >= 1
    /\ c.SEARCH_COUNT >= 1
    /\ c.REMOVE_HITS + c.REMOVE_MISSES = c.REMOVE_COUNT

Range(n) == [p \in 1..n |-> p - 1]

\* mutant of Phases: update_data is drawn before update_indices
Phases_Swapped ==
    <<"insert_data", "shuffle", "update_data", "update_indices",
      "remove_hits", "remove_misses", "search", "return">>

Phases ==
    <<"insert_data", "shuffle", "update_indices", "update_data",
      "remove_hits", "remove_misses", "search", "return">>

\* how many times the statement of a phase runs
Iterations(c, p) ==
    CASE p = "insert_data" -> c.N
      [] p = "shuffle" -> 1
      [] p = "update_indices" -> c.UPDATE_COUNT
      [] p = "update_data" -> c.UPDATE_COUNT
      [] p = "remove_hits" -> c.REMOVE_HITS
      [] p = "remove_misses" -> c.REMOVE_MISSES
      [] p = "search" -> c.SEARCH_COUNT
      [] OTHER -> 1

Index(p) == CHOOSE k \in 1..Len(Phases) : Phases[k] = p

\* the first phase from the k-th on whose loop is not empty
RECURSIVE Enter(_, _)
Enter(c, k) ==
    IF k >= Len(Phases) \/ Iterations(c, Phases[k]) > 0 THEN Phases[k]
    ELSE Enter(c, k + 1)

\* where control is after iteration n of phase p
After(c, p, n) ==
    IF n + 1 < Iterations(c, p) THEN [pc |-> p, i |-> n + 1]
    ELSE [pc |-> Enter(c, Index(p) + 1), i |-> 0]

Tags(p, n) == [k \in 1..n |-> p]

EmptyData ==
    [insert_keys |-> <<>>, insert_data |-> <<>>, order |-> <<>>,
     shuffled_keys |-> <<>>, update_indices |-> <<>>, update_data |-> <<>>,
     remove_is_hit |-> <<>>, remove_indices |-> <<>>, remove_miss_keys |-> <<>>,
     search_is_hit |-> <<>>, search_indices |-> <<>>, search_miss_keys |-> <<>>]

\* generate_data is entered: rng is constructed and insert_keys is range(N)
BuilderInit(configs) ==
    /\ cfg \in configs
    /\ rng = New(cfg.SEED)
    /\ seed = cfg.SEED
    /\ seed2 = cfg.SEED
    /\ twin = rng
    /\ prev = rng
    /\ op = "new"
    /\ arg = 0
    /\ ret = 0
    /\ ret2 = 0
    /\ array0 = <<>>
    /\ array = <<>>
    /\ array2 = <<>>
    /\ pc = Enter(cfg, 1)
    /\ i = 0
    /\ data = [EmptyData EXCEPT !.insert_keys = Range(cfg.N)]
    /\ f64s = <<>>
    /\ log = <<>>
    /\ result = <<>>

\* one statement of generate_data has run, leaving the generator as g and the
\* lists as d
Ran(p, g, d) ==
    /\ pc = p
    /\ rng' = g
    /\ data' = d
    /\ log' = log \o Tags(p, g.calls - rng.calls)
    /\ pc' = After(cfg, p, i).pc
    /\ i' = After(cfg, p, i).i
    /\ UNCHANGED <<cfg, result>>
    /\ UNCHANGED driverVars

InsertData ==
    LET r == rand_char(rng)
    IN /\ Ran("insert_data", r.rng,
              [data EXCEPT !.insert_data = Append(@, r.ret)])
       /\ UNCHANGED f64s

ShuffleKeys ==
    LET s == shuffle(rng, Range(cfg.N))
    IN /\ Ran("shuffle", s.rng,
              [data EXCEPT !.order = s.array,
                           !.shuffled_keys =
                               [p \in 1..cfg.N |-> data.insert_keys[s.array[p] + 1]]])
       /\ UNCHANGED f64s

UpdateIndices ==
    LET r == next_usize(rng, cfg.N)
    IN /\ Ran("update_indices", r.rng,
              [data EXCEPT !.update_indices = Append(@, r.ret)])
       /\ UNCHANGED f64s

UpdateData ==
    LET r == rand_char(rng)
    IN /\ Ran("update_data", r.rng,
              [data EXCEPT !.update_data = Append(@, r.ret)])
       /\ UNCHANGED f64s

RemoveHit ==
    LET r == next_usize(rng, cfg.N)
    IN /\ Ran("remove_hits", r.rng,
              [data EXCEPT !.remove_is_hit = Append(@, TRUE),
                           !.remove_indices = Append(@, r.ret),
                           !.remove_miss_keys = Append(@, 0)])
       /\ UNCHANGED f64s

\* mutant of IsHit: the comparison is turned round
IsHit_Flipped(f, rate) == Lt(rate, f)

\* line 96: next_f64() < SEARCH_HIT_RATE, on the ints f and rate (* 2^53)
IsHit(f, rate) == Lt(f, rate)

\* mutant of MissKey: the offset N is lost
MissKey_NoOffset(n, draw) == Mod(draw, n) + 1

\* N + (draw % N) + 1
MissKey(n, draw) == n + Mod(draw, n) + 1

\* "% N" raises ZeroDivisionError when N is 0, after the draw was made
Raised(p, g, d) ==
    /\ pc = p
    /\ rng' = g
    /\ data' = d
    /\ log' = log \o Tags(p, g.calls - rng.calls)
    /\ pc' = "ZeroDivisionError"
    /\ UNCHANGED <<cfg, i, result>>
    /\ UNCHANGED driverVars

RemoveMiss ==
    LET r == next_u64(rng)
        d == [data EXCEPT !.remove_is_hit = Append(@, FALSE),
                          !.remove_indices = Append(@, 0)]
    IN /\ IF cfg.N = 0 THEN Raised("remove_misses", r.rng, d)
          ELSE Ran("remove_misses", r.rng,
                   [d EXCEPT !.remove_miss_keys = Append(@, MissKey(cfg.N, r.ret))])
       /\ UNCHANGED f64s

SearchHit ==
    LET f == next_f64(rng)
        r == next_usize(f.rng, cfg.N)
    IN /\ IsHit(f.ret, cfg.SEARCH_HIT_RATE)
       /\ Ran("search", r.rng,
              [data EXCEPT !.search_is_hit = Append(@, TRUE),
                           !.search_indices = Append(@, r.ret),
                           !.search_miss_keys = Append(@, 0)])
       /\ f64s' = Append(f64s, f.ret)

SearchMiss ==
    LET f == next_f64(rng)
        r == next_u64(f.rng)
        d == [data EXCEPT !.search_is_hit = Append(@, FALSE),
                          !.search_indices = Append(@, 0)]
    IN /\ ~IsHit(f.ret, cfg.SEARCH_HIT_RATE)
       /\ IF cfg.N = 0 THEN Raised("search", r.rng, d)
          ELSE Ran("search", r.rng,
                   [d EXCEPT !.search_miss_keys = Append(@, MissKey(cfg.N, r.ret))])
       /\ f64s' = Append(f64s, f.ret)

Return ==
    /\ pc = "return"
    /\ pc' = "done"
    /\ result' =
         [insert_keys |-> data.shuffled_keys,
          insert_data |-> data.insert_data,
          update_indices |-> data.update_indices,
          update_data |-> data.update_data,
          remove_is_hit |-> data.remove_is_hit,
          remove_indices |-> data.remove_indices,
          remove_miss_keys |-> data.remove_miss_keys,
          search_is_hit |-> data.search_is_hit,
          search_indices |-> data.search_indices,
          search_miss_keys |-> data.search_miss_keys,
          n |-> cfg.N,
          updates |-> cfg.UPDATE_COUNT,
          removes |-> cfg.REMOVE_COUNT,
          searches |-> cfg.SEARCH_COUNT]
    /\ UNCHANGED <<rng, cfg, i, data, f64s, log>>
    /\ UNCHANGED driverVars

BuilderNext ==
    \/ InsertData
    \/ ShuffleKeys
    \/ UpdateIndices
    \/ UpdateData
    \/ RemoveHit
    \/ RemoveMiss
    \/ SearchHit
    \/ SearchMiss
    \/ Return

\* configurations that section 7 of the specification accepts
Init ==
    BuilderInit({c \in Configs({{0}, SEED}, 1..MaxN, 1..MaxUpdates,
                               1..(MaxHits + MaxMisses), 1..MaxSearches, Rates) :
                     ValidConfig(c)})

Next == BuilderNext

Spec == Init /\ [][Next]_vars

\* any setting of N and of the counts, with the SEED and SEARCH_HIT_RATE of
\* the source
InitAny ==
    BuilderInit(Configs({SEED}, 0..MaxN, 0..MaxUpdates,
                        0..(MaxHits + MaxMisses + 1), 0..MaxSearches, {HALF}))

SpecAny == InitAny /\ [][Next]_vars

----------------------------------------------------------------------------
(* Properties of the class, checked under SpecGen *)

\* the xorshift64* step that truncates to 64 bits after each shift-xor
RefXor25(x) == AND(XOR(x, Shl(x, 25)), MASK64)
RefAdvance(x) == Xor27(RefXor25(Xor12(x)))

\* C1: next_u64 leaves the state RefAdvance gives, and returns that state
\* times 0x2545F4914F6CDD1D modulo 2^64
C1_NextU64IsReference ==
    op = "next_u64" =>
        /\ rng.state = RefAdvance(prev.state)
        /\ ret = MulMask64(RefAdvance(prev.state), MULT)

\* C2: the state of a generator is never zero and is below 2^64, after
\* construction from any seed and after any sequence of calls
C2_StateNeverZero ==
    /\ rng.state # {}
    /\ rng.state \subseteq MASK64
    /\ twin.state # {}
    /\ twin.state \subseteq MASK64

C2_Witness == seed = {} /\ op = "shuffle" /\ rng.calls >= 2

\* C3: next_usize(bound) with bound <= 1 returns 0 and leaves the generator
\* as it was, so that the next next_u64() is what it would have been; with
\* bound >= 2 it makes exactly one next_u64 step and returns that draw
\* modulo bound, a value of [0, bound)
C3_NextUsizeFrame ==
    op = "next_usize" =>
        IF arg <= 1
        THEN /\ ret = 0
             /\ rng = prev
             /\ next_u64(rng).ret = next_u64(prev).ret
        ELSE /\ rng.state = Advance(prev.state)
             /\ rng.calls = prev.calls + 1
             /\ ret = Mod(MulMask64(rng.state, MULT), arg)
             /\ ret \in 0..(arg - 1)

C3_Witness == op = "next_usize" /\ arg = 1 /\ rng.calls >= 1

RECURSIVE AdvanceN(_, _)
AdvanceN(x, n) == IF n = 0 THEN x ELSE AdvanceN(Advance(x), n - 1)

Count(a, v) == Cardinality({p \in 1..Len(a) : a[p] = v})
IsPermutation(a, b) ==
    /\ Len(a) = Len(b)
    /\ \A p \in 1..Len(b) : Count(a, b[p]) = Count(b, b[p])

\* C4: shuffle of a list of length L >= 1 makes exactly L - 1 next_u64 steps
\* and leaves the list a permutation of what it was
C4_Shuffle ==
    (op = "shuffle" /\ Len(array0) >= 1) =>
        /\ rng.calls = prev.calls + Len(array0) - 1
        /\ rng.state = AdvanceN(prev.state, Len(array0) - 1)
        /\ IsPermutation(array, array0)

C4_Witness == op = "shuffle" /\ Len(array0) = 3 /\ array # array0

\* C9: a generator constructed with seed 0 and one constructed with seed 1,
\* given the same calls, have equal states and return equal values after
\* every call; any other seed is the initial state as it is
C9_ZeroSeedIsOne ==
    /\ (seed = {} /\ seed2 = {0}) =>
           (rng.state = twin.state /\ ret = ret2 /\ array = array2)
    /\ (op = "new" /\ seed # {}) => rng.state = seed

C9_Witness ==
    seed = {} /\ seed2 = {0} /\ op = "rand_char" /\ prev.calls >= 1

----------------------------------------------------------------------------
(* Properties of generate_data, checked under Spec (C5: under SpecAny) *)

\* C5: a configuration that section 7 rejects makes no generator draw and
\* returns no workload; a returned workload reports as 'removes' the length
\* of its remove lists
C5_InvalidConfigRejected ==
    /\ ~ValidConfig(cfg) => (rng.calls = 0 /\ pc # "done")
    /\ pc = "done" => result.removes = Len(result.remove_is_hit)

Letters == ORD_A..(ORD_A + 25)

\* C6: the insert_keys returned are a permutation of 0..N-1, and insert_data
\* has N elements, each a lowercase letter
C6_InsertSeries ==
    pc = "done" =>
        /\ IsPermutation(result.insert_keys, Range(cfg.N))
        /\ \A v \in 0..(cfg.N - 1) : Count(result.insert_keys, v) = 1
        /\ Len(result.insert_data) = cfg.N
        /\ \A p \in 1..Len(result.insert_data) : result.insert_data[p] \in Letters

C6_Witness ==
    pc = "done" /\ cfg.N = 3 /\ result.insert_keys # Range(cfg.N)

\* C7: the remove lists have REMOVE_HITS + REMOVE_MISSES = REMOVE_COUNT
\* entries; the first REMOVE_HITS are hits with an index of [0, N), the
\* others are misses with a key k, N - 1 < k <= 2N; no hit follows a miss
C7_RemoveSeries ==
    pc = "done" =>
        /\ Len(result.remove_is_hit) = cfg.REMOVE_HITS + cfg.REMOVE_MISSES
        /\ Len(result.remove_is_hit) = cfg.REMOVE_COUNT
        /\ Len(result.remove_indices) = cfg.REMOVE_COUNT
        /\ Len(result.remove_miss_keys) = cfg.REMOVE_COUNT
        /\ result.removes = cfg.REMOVE_COUNT
        /\ \A p \in 1..Len(result.remove_is_hit) :
             IF p <= cfg.REMOVE_HITS
             THEN /\ result.remove_is_hit[p]
                  /\ result.remove_indices[p] \in 0..(cfg.N - 1)
             ELSE /\ ~result.remove_is_hit[p]
                  /\ cfg.N - 1 < result.remove_miss_keys[p]
                  /\ result.remove_miss_keys[p] <= 2 * cfg.N
        /\ \A p, q \in 1..Len(result.remove_is_hit) :
             (p < q /\ ~result.remove_is_hit[p]) => ~result.remove_is_hit[q]

C7_Witness ==
    pc = "done" /\ cfg.N >= 2 /\ cfg.REMOVE_HITS >= 1 /\ cfg.REMOVE_MISSES >= 1

\* C8: the search lists have SEARCH_COUNT entries; entry t is a hit exactly
\* when its next_f64 draw, a value of [0, 1), is below SEARCH_HIT_RATE; a hit
\* has an index of [0, N), a miss a key N + m + 1 with m in [0, N)
C8_SearchSeries ==
    pc = "done" =>
        /\ Len(result.search_is_hit) = cfg.SEARCH_COUNT
        /\ Len(result.search_indices) = cfg.SEARCH_COUNT
        /\ Len(result.search_miss_keys) = cfg.SEARCH_COUNT
        /\ Len(f64s) = cfg.SEARCH_COUNT
        /\ \A t \in 1..Len(result.search_is_hit) :
             /\ f64s[t] \subseteq 0..52
             /\ result.search_is_hit[t] <=> Lt(f64s[t], cfg.SEARCH_HIT_RATE)
             /\ IF result.search_is_hit[t]
                THEN result.search_indices[t] \in 0..(cfg.N - 1)
                ELSE \E m \in 0..(cfg.N - 1) :
                         result.search_miss_keys[t] = cfg.N + m + 1

C8_Witness ==
    /\ pc = "done"
    /\ cfg.N >= 2
    /\ \E t, u \in 1..Len(result.search_is_hit) :
         t < u /\ ~result.search_is_hit[t] /\ result.search_is_hit[u]

\* the order of the phases, as claimed
ClaimedOrder ==
    <<"insert_data", "shuffle", "update_indices", "update_data",
      "remove_hits", "remove_misses", "search">>

Rank(t) == CHOOSE k \in 1..Len(ClaimedOrder) : ClaimedOrder[k] = t

\* C10: no draw of a later phase precedes a draw of an earlier one; for
\* N >= 2 a run makes N, N - 1, UPDATE_COUNT, UPDATE_COUNT, REMOVE_HITS,
\* REMOVE_MISSES and 2 * SEARCH_COUNT draws in the seven phases, which is
\* every draw it makes
C10_PhaseOrder ==
    /\ Len(log) = rng.calls
    /\ \A p, q \in 1..Len(log) : p < q => Rank(log[p]) <= Rank(log[q])
    /\ (pc = "done" /\ cfg.N >= 2) =>
           /\ Count(log, "insert_data") = cfg.N
           /\ Count(log, "shuffle") = cfg.N - 1
           /\ Count(log, "update_indices") = cfg.UPDATE_COUNT
           /\ Count(log, "update_data") = cfg.UPDATE_COUNT
           /\ Count(log, "remove_hits") = cfg.REMOVE_HITS
           /\ Count(log, "remove_misses") = cfg.REMOVE_MISSES
           /\ Count(log, "search") = 2 * cfg.SEARCH_COUNT
           /\ Len(f64s) = cfg.SEARCH_COUNT
           /\ rng.calls = cfg.N + (cfg.N - 1) + 2 * cfg.UPDATE_COUNT
                          + cfg.REMOVE_HITS + cfg.REMOVE_MISSES
                          + 2 * cfg.SEARCH_COUNT

C10_Witness ==
    /\ pc = "done"
    /\ cfg.N >= 2
    /\ cfg.REMOVE_HITS >= 1
    /\ cfg.REMOVE_MISSES >= 1
    /\ cfg.SEARCH_COUNT >= 2

====
